---- MODULE Spec2Model ----
(***************************************************************************)
(* Snowprint: a sharded 64-bit identifier generator (src/src/lib.rs).      *)
(*                                                                         *)
(* An identifier is  timestamp(41) | logical volume(13) | sequence(10).    *)
(* A u64 is modelled as the set of the positions of its one-bits           *)
(* (a subset of 0..63), so that shifts, masks and wrap-around are the      *)
(* machine's own; the state's counters, which stay far below 2^31 inside   *)
(* the bounds of the model, are naturals.                                  *)
(***************************************************************************)
EXTENDS Integers, FiniteSets, Sequences, TLC

(***************************************************************************)
(* Bounds of the model.                                                    *)
(***************************************************************************)
\* clock readings are 0..MaxTime milliseconds since the origin
MaxTime == 2
\* the generator is run with logical_volume_modulo in 1..MaxModulo
MaxModulo == 3
\* calls that fail in one millisecond after which the model stops calling
MaxFailedCalls == 2
\* clock readings of the rotation runs are 0..MaxRotationTime
MaxRotationTime == 6
\* identifiers a rotation run asks for within one millisecond
MaxBurst == 3

(***************************************************************************)
(* Program constants.                                                      *)
(***************************************************************************)
U64_BITS == 64
SEQUENCE_BIT_LEN == 10
LOGICAL_VOLUME_BIT_LEN == 13
MAX_SEQUENCES == 2 ^ SEQUENCE_BIT_LEN
MAX_LOGICAL_VOLUMES == 2 ^ LOGICAL_VOLUME_BIT_LEN
\* the width left to the timestamp: 64 - 13 - 10
TIMESTAMP_BIT_LEN == U64_BITS - LOGICAL_VOLUME_BIT_LEN - SEQUENCE_BIT_LEN

(***************************************************************************)
(* u64 arithmetic on sets of bit positions.                                *)
(***************************************************************************)
U64Positions == 0 .. (U64_BITS - 1)

\* the largest natural the model converts is below 2^31
NatPositions == 0 .. 30

\* the bits of the natural n, the lowest at position i
RECURSIVE BitsFrom(_, _)
BitsFrom(n, i) ==
    IF n = 0 THEN {}
    ELSE (IF n % 2 = 1 THEN {i} ELSE {}) \cup BitsFrom(n \div 2, i + 1)

FromNat(n) == BitsFrom(n, 0)

RECURSIVE SumBits(_)
SumBits(a) ==
    IF a = {} THEN 0
    ELSE LET i == CHOOSE j \in a : TRUE
         IN  (2 ^ i) + SumBits(a \ {i})

IsSmall(a) == a \subseteq NatPositions

ToNat(a) == SumBits(a)

\* a << k : bits shifted past bit 63 are dropped
Shl(a, k) == {i + k : i \in {j \in a : j + k < U64_BITS}}

\* a >> k
Shr(a, k) == {i - k : i \in {j \in a : j >= k}}

BitOr(a, b) == a \cup b

BitAnd(a, b) == a \cap b

\* (1 << n) - 1
LowOnes(n) == 0 .. (n - 1)

SetMax(s) == CHOOSE x \in s : \A y \in s : y <= x

\* a < b as unsigned integers
U64Lt(a, b) ==
    /\ a # b
    /\ SetMax((a \ b) \cup (b \ a)) \in b

U64Le(a, b) == a = b \/ U64Lt(a, b)

BitXor(a, b) == (a \ b) \cup (b \ a)

\* a + b modulo 2^64: the sum without carries plus the carries, until none is left
RECURSIVE WrappingAdd(_, _)
WrappingAdd(a, b) ==
    IF BitAnd(a, b) = {} THEN BitOr(a, b)
    ELSE WrappingAdd(BitXor(a, b), Shl(BitAnd(a, b), 1))

\* a + b does not fit 64 bits: a carry leaves bit 63
RECURSIVE AddOverflows(_, _)
AddOverflows(a, b) ==
    IF BitAnd(a, b) = {} THEN FALSE
    ELSE (U64_BITS - 1) \in BitAnd(a, b)
         \/ AddOverflows(BitXor(a, b), Shl(BitAnd(a, b), 1))

SEQUENCE_BIT_MASK == LowOnes(SEQUENCE_BIT_LEN)

LOGICAL_VOLUME_BIT_MASK == Shl(LowOnes(LOGICAL_VOLUME_BIT_LEN), SEQUENCE_BIT_LEN)

(***************************************************************************)
(* compose / decompose                                                     *)
(***************************************************************************)
\* compose_snowprint that shifts the logical id by the wrong field length
compose_snowprint_misplaced(ms_timestamp, logical_id, ticket_id) ==
    BitOr(BitOr(Shl(ms_timestamp, LOGICAL_VOLUME_BIT_LEN + SEQUENCE_BIT_LEN),
                Shl(logical_id, LOGICAL_VOLUME_BIT_LEN)),
          ticket_id)

compose_snowprint(ms_timestamp, logical_id, ticket_id) ==
    BitOr(BitOr(Shl(ms_timestamp, LOGICAL_VOLUME_BIT_LEN + SEQUENCE_BIT_LEN),
                Shl(logical_id, SEQUENCE_BIT_LEN)),
          ticket_id)

\* decompose_snowprint without the logical volume mask
decompose_unmasked(snowprint) ==
    <<Shr(snowprint, LOGICAL_VOLUME_BIT_LEN + SEQUENCE_BIT_LEN),
      Shr(snowprint, SEQUENCE_BIT_LEN),
      BitAnd(snowprint, SEQUENCE_BIT_MASK)>>

decompose_snowprint(snowprint) ==
    LET time == Shr(snowprint, LOGICAL_VOLUME_BIT_LEN + SEQUENCE_BIT_LEN)
        logical_id == Shr(BitAnd(snowprint, LOGICAL_VOLUME_BIT_MASK), SEQUENCE_BIT_LEN)
        ticket_id == BitAnd(snowprint, SEQUENCE_BIT_MASK)
    IN  <<time, logical_id, ticket_id>>

(***************************************************************************)
(* Settings, clock readings, results                                       *)
(***************************************************************************)
\* SnowprintSettings; origin_duration is folded into the clock readings,
\* which are milliseconds since the origin
SnowprintSettings(base, modulo) ==
    [logical_volume_base |-> base, logical_volume_modulo |-> modulo]

\* SystemTime::now().duration_since(UNIX_EPOCH + origin): Ok(ms) or Err
Reading(ok, ms) == [ok |-> ok, ms |-> ms]

ClockReadings(max) ==
    {Reading(TRUE, t) : t \in 0 .. max} \cup {Reading(FALSE, 0)}

NoState ==
    [last_duration_ms |-> 0, sequence_id |-> 0,
     logical_volume_id |-> 0, last_logical_volume_id |-> 0]

\* an optional identifier
None == [some |-> FALSE, id |-> {}]

Some(id) == [some |-> TRUE, id |-> id]

\* the value returned by the latest call: kind is "Ok" or an Error variant
Returned(kind, id) == [kind |-> kind, id |-> id]

\* n % m for a natural n below 2^31 and a u64 m # 0
RemU64(n, m) == IF IsSmall(m) THEN n % ToNat(m) ELSE n

(***************************************************************************)
(* Snowprint::new and check_settings                                       *)
(***************************************************************************)
\* overflow_checks: the build traps u64 overflow (debug profile) instead of
\* wrapping (release profile)
check_settings(s, overflow_checks) ==
    IF s.logical_volume_modulo = {}
    THEN "LogicalVolumeModuleIsZero"
    ELSE IF AddOverflows(s.logical_volume_base, s.logical_volume_modulo) /\ overflow_checks
    THEN "Panic"
    ELSE IF U64Lt(FromNat(MAX_LOGICAL_VOLUMES),
                  WrappingAdd(s.logical_volume_base, s.logical_volume_modulo))
    THEN "ExceededAvailableLogicalVolumes"
    ELSE "Ok"

new(s, overflow_checks, reading) ==
    LET checked == check_settings(s, overflow_checks)
    IN  IF checked # "Ok"
        THEN [kind |-> checked, state |-> NoState]
        ELSE IF ~reading.ok
        THEN [kind |-> "FailedToParseOriginDuration", state |-> NoState]
        ELSE [kind |-> "Ok",
              state |-> [last_duration_ms |-> reading.ms,
                         sequence_id |-> 0,
                         logical_volume_id |-> 0,
                         last_logical_volume_id |-> 0]]

(***************************************************************************)
(* get_snowprint                                                           *)
(***************************************************************************)
get_most_recent_duration(reading, last_duration_ms) ==
    IF reading.ok
    THEN IF reading.ms > last_duration_ms THEN reading.ms ELSE last_duration_ms
    ELSE last_duration_ms

\* time_changed that keeps the logical volume
time_changed_unrotated(st, s, duration_ms) ==
    [last_duration_ms |-> duration_ms,
     sequence_id |-> 0,
     last_logical_volume_id |-> st.logical_volume_id,
     logical_volume_id |-> st.logical_volume_id]

\* time_changed that does not record the logical volume it leaves
time_changed_forgetful(st, s, duration_ms) ==
    [last_duration_ms |-> duration_ms,
     sequence_id |-> 0,
     last_logical_volume_id |-> st.last_logical_volume_id,
     logical_volume_id |-> RemU64(st.logical_volume_id + 1, s.logical_volume_modulo)]

time_changed(st, s, duration_ms) ==
    [last_duration_ms |-> duration_ms,
     sequence_id |-> 0,
     last_logical_volume_id |-> st.logical_volume_id,
     logical_volume_id |-> RemU64(st.logical_volume_id + 1, s.logical_volume_modulo)]

\* time_did_not_change that moves to the next logical volume before it fails
time_did_not_change_moved(st, s) ==
    LET bumped == [st EXCEPT !.sequence_id = st.sequence_id + 1]
        next_logical_volume_id ==
            RemU64(st.logical_volume_id + 1, s.logical_volume_modulo)
        moved == [bumped EXCEPT !.logical_volume_id = next_logical_volume_id]
    IN  IF bumped.sequence_id > MAX_SEQUENCES - 1
        THEN IF next_logical_volume_id = st.last_logical_volume_id
             THEN [state |-> moved, err |-> "NoAvailableSequences"]
             ELSE [state |-> [moved EXCEPT !.sequence_id = 0], err |-> "None"]
        ELSE [state |-> bumped, err |-> "None"]

\* time_did_not_change that starts the sequence again when it fails
time_did_not_change_reset(st, s) ==
    LET bumped == [st EXCEPT !.sequence_id = st.sequence_id + 1]
        next_logical_volume_id ==
            RemU64(st.logical_volume_id + 1, s.logical_volume_modulo)
    IN  IF bumped.sequence_id > MAX_SEQUENCES - 1
        THEN IF next_logical_volume_id = st.last_logical_volume_id
             THEN [state |-> [bumped EXCEPT !.sequence_id = 0],
                   err |-> "NoAvailableSequences"]
             ELSE [state |-> [bumped EXCEPT !.sequence_id = 0,
                                            !.logical_volume_id = next_logical_volume_id],
                   err |-> "None"]
        ELSE [state |-> bumped, err |-> "None"]

\* the state left behind and the error returned ("None": Ok(()))
time_did_not_change(st, s) ==
    LET bumped == [st EXCEPT !.sequence_id = st.sequence_id + 1]
        next_logical_volume_id ==
            RemU64(st.logical_volume_id + 1, s.logical_volume_modulo)
    IN  IF bumped.sequence_id > MAX_SEQUENCES - 1
        THEN IF next_logical_volume_id = st.last_logical_volume_id
             THEN [state |-> bumped, err |-> "NoAvailableSequences"]
             ELSE [state |-> [bumped EXCEPT !.sequence_id = 0,
                                            !.logical_volume_id = next_logical_volume_id],
                   err |-> "None"]
        ELSE [state |-> bumped, err |-> "None"]

\* the state left behind and the value returned
compose_snowprint_from_settings_and_state(s, st, duration_ms) ==
    LET step ==
            IF st.last_duration_ms < duration_ms
            THEN [state |-> time_changed(st, s, duration_ms), err |-> "None"]
            ELSE time_did_not_change(st, s)
    IN  IF step.err # "None"
        THEN [state |-> step.state, ret |-> Returned(step.err, {})]
        ELSE [state |-> step.state,
              ret |-> Returned("Ok",
                        compose_snowprint(
                            FromNat(duration_ms),
                            WrappingAdd(s.logical_volume_base,
                                        FromNat(step.state.logical_volume_id)),
                            FromNat(step.state.sequence_id)))]

get_snowprint(s, st, reading) ==
    compose_snowprint_from_settings_and_state(
        s, st, get_most_recent_duration(reading, st.last_duration_ms))

(***************************************************************************)
(* State                                                                   *)
(***************************************************************************)
VARIABLES
    settings,         \* Snowprint.settings
    overflow_checks,  \* the build profile: u64 overflow traps
    constructed,      \* what Snowprint::new returned: "Ok" or its Error
    state,            \* Snowprint.state
    returned,         \* what the latest get_snowprint returned
    prev_id,          \* history: the identifier returned by the latest successful call before that one
    first_id,         \* history: the first identifier the generator returned
    ms_issued,        \* history: identifiers returned with the current last_duration_ms
    pattern,          \* history: the clock so far (frozen, stepping 1 ms a call, or mixed) and the calls made
    call,             \* history: the latest call: whether its reading was later than last_duration_ms, the reading, the state before, the result before
    rolled,           \* history: some call so far read a clock later than last_duration_ms
    codec_in,         \* compose's arguments
    codec_id,         \* compose's value
    codec_out,        \* decompose's value
    codec_pc,         \* "idle", "input", "composed", "decomposed" or "recomposed"
    codec_back        \* compose's value on decompose's value

vars ==
    <<settings, overflow_checks, constructed, state, returned,
      prev_id, first_id, ms_issued, pattern, call, rolled,
      codec_in, codec_id, codec_out, codec_pc, codec_back>>

generator_vars == <<settings, overflow_checks, constructed, state, returned>>

history_vars == <<prev_id, first_id, ms_issued, pattern, call, rolled>>

codec_vars == <<codec_in, codec_id, codec_out, codec_pc, codec_back>>

U64Max == U64Positions

\* the settings the generator is run with: the smallest and the largest base
\* for each modulo, and a base whose sum with the modulo passes 2^64
GeneratorSettings ==
    {SnowprintSettings(FromNat(0), FromNat(m)) : m \in 1 .. MaxModulo}
    \cup {SnowprintSettings(FromNat(MAX_LOGICAL_VOLUMES - m), FromNat(m)) : m \in 1 .. MaxModulo}
    \cup {SnowprintSettings(U64Max, FromNat(m)) : m \in 2 .. MaxModulo}

NotCalled == Returned("NotCalled", {})

HistoryInit ==
    /\ prev_id = None
    /\ first_id = None
    /\ ms_issued = 0
    /\ pattern = [shape |-> "start", calls |-> 0]
    /\ call = [made |-> FALSE, later |-> FALSE, ms |-> 0, before |-> NoState,
               prior |-> "NotCalled"]
    /\ rolled = FALSE

CodecIdle ==
    /\ codec_in = <<{}, {}, {}>>
    /\ codec_id = {}
    /\ codec_out = <<{}, {}, {}>>
    /\ codec_pc = "idle"
    /\ codec_back = {}

\* the generator as Snowprint::new leaves it.  Settings whose sum wraps are
\* accepted only by a build without overflow checks; for all others the two
\* profiles run the same code and the model keeps the checked one.
Init ==
    /\ settings \in GeneratorSettings
    /\ overflow_checks =
           ~AddOverflows(settings.logical_volume_base, settings.logical_volume_modulo)
    /\ \E reading \in ClockReadings(MaxTime) :
           /\ new(settings, overflow_checks, reading).kind = "Ok"
           /\ state = new(settings, overflow_checks, reading).state
    /\ constructed = "Ok"
    /\ returned = NotCalled
    /\ HistoryInit
    /\ CodecIdle

NextPattern(reading) ==
    LET same == reading.ok /\ reading.ms = state.last_duration_ms
        step == reading.ok /\ reading.ms = state.last_duration_ms + 1
        shape ==
            IF pattern.shape \in {"start", "frozen"} /\ same THEN "frozen"
            ELSE IF pattern.shape \in {"start", "stepping"} /\ step THEN "stepping"
            ELSE "mixed"
    IN  [shape |-> shape,
         calls |-> IF shape = "mixed" THEN 0 ELSE pattern.calls + 1]

\* one call of get_snowprint with the clock at `reading`
Call(reading) ==
    \E out \in {get_snowprint(settings, state, reading)} :
    LET duration_ms == get_most_recent_duration(reading, state.last_duration_ms)
        ok == out.ret.kind = "Ok"
    IN  /\ constructed = "Ok"
        /\ \/ state.last_duration_ms < duration_ms
           \/ state.sequence_id < MAX_SEQUENCES - 1 + MaxFailedCalls
        /\ state' = out.state
        /\ returned' = out.ret
        /\ prev_id' = IF returned.kind = "Ok" THEN Some(returned.id) ELSE prev_id
        /\ first_id' = IF ok /\ ~first_id.some THEN Some(out.ret.id) ELSE first_id
        /\ ms_issued' =
               (IF state.last_duration_ms < duration_ms THEN 0 ELSE ms_issued)
               + (IF ok THEN 1 ELSE 0)
        /\ pattern' = NextPattern(reading)
        /\ call' = [made |-> TRUE,
                    later |-> reading.ok /\ reading.ms > state.last_duration_ms,
                    ms |-> IF reading.ok /\ reading.ms > state.last_duration_ms
                           THEN reading.ms ELSE 0,
                    before |-> state,
                    prior |-> returned.kind]
        /\ rolled' = (rolled \/ state.last_duration_ms < duration_ms)
        /\ UNCHANGED <<settings, overflow_checks, constructed>>
        /\ UNCHANGED codec_vars

GetSnowprint == \E reading \in ClockReadings(MaxTime) : Call(reading)

Next == GetSnowprint

\* every generator a build can construct, under every clock
Spec == Init /\ [][Next]_vars

\* the generators whose settings satisfy base + modulo <= 2^13 without wrap-around
InitInRange ==
    /\ Init
    /\ ~AddOverflows(settings.logical_volume_base, settings.logical_volume_modulo)

SpecInRange == InitInRange /\ [][Next]_vars

(***************************************************************************)
(* The constructor alone, on settings of the whole u64 range               *)
(***************************************************************************)
SettingsBases ==
    {FromNat(n) : n \in {0, 1, 8000, MAX_LOGICAL_VOLUMES - 1, MAX_LOGICAL_VOLUMES,
                         MAX_LOGICAL_VOLUMES + 1}}
    \cup {{U64_BITS - 1}, U64Max \ {0}, U64Max}

SettingsModulos ==
    {FromNat(n) : n \in {0, 1, 2, 191, 192, 193, 200, MAX_LOGICAL_VOLUMES,
                         MAX_LOGICAL_VOLUMES + 1}}
    \cup {{U64_BITS - 1}, U64Max}

GeneratorIdle ==
    /\ constructed = "NotRun"
    /\ state = NoState
    /\ returned = NotCalled

InitSettings ==
    /\ settings \in {SnowprintSettings(b, m) : b \in SettingsBases, m \in SettingsModulos}
    /\ overflow_checks \in BOOLEAN
    /\ GeneratorIdle
    /\ HistoryInit
    /\ CodecIdle

\* Snowprint::new(settings) with the clock at `reading`
Construct ==
    \E reading \in ClockReadings(MaxTime) :
        /\ constructed = "NotRun"
        /\ constructed' = new(settings, overflow_checks, reading).kind
        /\ state' = new(settings, overflow_checks, reading).state
        /\ UNCHANGED <<settings, overflow_checks, returned>>
        /\ UNCHANGED history_vars
        /\ UNCHANGED codec_vars

SpecSettings == InitSettings /\ [][Construct]_vars

(***************************************************************************)
(* compose and decompose alone                                             *)
(***************************************************************************)
\* field values below 2^41, 2^13 and 2^10 with the bits next to the field
\* borders set and cleared, and the largest value of each field
StampInputs == SUBSET {0, 17, 18, TIMESTAMP_BIT_LEN - 1} \cup {LowOnes(TIMESTAMP_BIT_LEN)}

ShardInputs == SUBSET {0, 9, 10, LOGICAL_VOLUME_BIT_LEN - 1} \cup {LowOnes(LOGICAL_VOLUME_BIT_LEN)}

SequenceInputs == SUBSET {0, SEQUENCE_BIT_LEN - 1} \cup {LowOnes(SEQUENCE_BIT_LEN)}

InitCodec ==
    /\ settings = SnowprintSettings({}, {})
    /\ overflow_checks = TRUE
    /\ GeneratorIdle
    /\ HistoryInit
    /\ codec_in \in StampInputs \X ShardInputs \X SequenceInputs
    /\ codec_id = {}
    /\ codec_out = <<{}, {}, {}>>
    /\ codec_pc = "input"
    /\ codec_back = {}

Compose ==
    /\ codec_pc = "input"
    /\ codec_id' = compose_snowprint(codec_in[1], codec_in[2], codec_in[3])
    /\ codec_pc' = "composed"
    /\ UNCHANGED <<codec_in, codec_out, codec_back>>
    /\ UNCHANGED generator_vars
    /\ UNCHANGED history_vars

Decompose ==
    /\ codec_pc = "composed"
    /\ codec_out' = decompose_snowprint(codec_id)
    /\ codec_pc' = "decomposed"
    /\ UNCHANGED <<codec_in, codec_id, codec_back>>
    /\ UNCHANGED generator_vars
    /\ UNCHANGED history_vars

NextCodec == Compose \/ Decompose

SpecCodec == InitCodec /\ [][NextCodec]_vars

(***************************************************************************)
(* decompose and compose alone, on identifiers of the whole u64 range      *)
(***************************************************************************)
\* 64-bit values with the bits next to the field borders set and cleared,
\* and the largest u64
IdInputs ==
    SUBSET {0, SEQUENCE_BIT_LEN - 1, SEQUENCE_BIT_LEN,
            LOGICAL_VOLUME_BIT_LEN + SEQUENCE_BIT_LEN - 1,
            LOGICAL_VOLUME_BIT_LEN + SEQUENCE_BIT_LEN,
            LOGICAL_VOLUME_BIT_LEN + SEQUENCE_BIT_LEN + 1,
            U64_BITS - 2, U64_BITS - 1}
    \cup {U64Max}

InitInverse ==
    /\ settings = SnowprintSettings({}, {})
    /\ overflow_checks = TRUE
    /\ GeneratorIdle
    /\ HistoryInit
    /\ codec_in = <<{}, {}, {}>>
    /\ codec_id \in IdInputs
    /\ codec_out = <<{}, {}, {}>>
    /\ codec_pc = "composed"
    /\ codec_back = {}

Recompose ==
    /\ codec_pc = "decomposed"
    /\ codec_back' = compose_snowprint(codec_out[1], codec_out[2], codec_out[3])
    /\ codec_pc' = "recomposed"
    /\ UNCHANGED <<codec_in, codec_id, codec_out>>
    /\ UNCHANGED generator_vars
    /\ UNCHANGED history_vars

NextInverse == Decompose \/ Recompose

SpecInverse == InitInverse /\ [][NextInverse]_vars

(***************************************************************************)
(* The generator under a clock that runs for six milliseconds and more,    *)
(* called a few times in each millisecond                                  *)
(***************************************************************************)
GetSnowprintRotation ==
    \E reading \in ClockReadings(MaxRotationTime) :
        /\ \/ reading.ok /\ reading.ms > state.last_duration_ms
           \/ ms_issued < MaxBurst
        /\ Call(reading)

SpecRotation == Init /\ [][GetSnowprintRotation]_vars

(***************************************************************************)
(* Vocabulary of the properties                                            *)
(***************************************************************************)
Succeeded == returned.kind = "Ok"

Exhausted == returned.kind = "NoAvailableSequences"

Stamp(id) == decompose_snowprint(id)[1]

Shard(id) == decompose_snowprint(id)[2]

Sequence(id) == decompose_snowprint(id)[3]

Modulo == ToNat(settings.logical_volume_modulo)

\* an identifier returned before the latest call that the history keeps
Earlier(e) == prev_id.some /\ e \in {prev_id.id, first_id.id}

(***************************************************************************)
(* C1  Uniqueness: an identifier returned by a successful call differs     *)
(* from every identifier returned earlier (here: from the first and from   *)
(* the previous identifier the generator returned).                        *)
(***************************************************************************)
C1_Unique ==
    Succeeded => \A e \in {prev_id.id, first_id.id} : Earlier(e) => returned.id # e

(***************************************************************************)
(* C2  Monotonicity: each identifier returned is, as an unsigned integer,  *)
(* no smaller than the one returned by the previous successful call, and   *)
(* larger when its millisecond or its shard differs from that one's.       *)
(***************************************************************************)
C2_Monotonic ==
    (Succeeded /\ prev_id.some) =>
        /\ U64Le(prev_id.id, returned.id)
        /\ (Stamp(prev_id.id) # Stamp(returned.id) \/ Shard(prev_id.id) # Shard(returned.id))
               => U64Lt(prev_id.id, returned.id)

(***************************************************************************)
(* C3  Exhaustion capacity: a call fails with NoAvailableSequences only    *)
(* when 1024 x logical_volume_modulo identifiers have been returned with   *)
(* the current millisecond.                                                *)
(***************************************************************************)
C3_Capacity ==
    Exhausted => ms_issued = MAX_SEQUENCES * Modulo

(***************************************************************************)
(* C4  Exhaustion boundary: with logical_volume_modulo = 1 and every clock *)
(* read returning the millisecond of construction, call k of the first     *)
(* 1024 succeeds with sequence k - 1 and call 1025 fails with              *)
(* NoAvailableSequences.                                                   *)
(***************************************************************************)
C4_Boundary ==
    (Modulo = 1 /\ pattern.shape = "frozen") =>
        /\ pattern.calls \in 1 .. MAX_SEQUENCES =>
               Succeeded /\ Sequence(returned.id) = FromNat(pattern.calls - 1)
        /\ pattern.calls = MAX_SEQUENCES + 1 => Exhausted

(***************************************************************************)
(* C5  Shard bound: logical_volume_id stays in [0, modulo) and the shard   *)
(* field of every identifier returned lies in [base, base + modulo).       *)
(***************************************************************************)
C5_ShardBound ==
    /\ state.logical_volume_id \in 0 .. (Modulo - 1)
    /\ Succeeded =>
           /\ U64Le(settings.logical_volume_base, Shard(returned.id))
           /\ \/ AddOverflows(settings.logical_volume_base, settings.logical_volume_modulo)
              \/ U64Lt(Shard(returned.id),
                       WrappingAdd(settings.logical_volume_base,
                                   settings.logical_volume_modulo))

(***************************************************************************)
(* C6  Round trip: for every timestamp below 2^41, shard id below 2^13     *)
(* and sequence below 2^10, decomposing the composed identifier returns    *)
(* the three values.                                                       *)
(***************************************************************************)
C6_RoundTrip ==
    codec_pc = "decomposed" => codec_out = codec_in

C6_Witness ==
    /\ codec_pc = "decomposed"
    /\ codec_in = <<LowOnes(TIMESTAMP_BIT_LEN), LowOnes(LOGICAL_VOLUME_BIT_LEN),
                    LowOnes(SEQUENCE_BIT_LEN)>>
    /\ codec_id = U64Max

(***************************************************************************)
(* C7  Config rejection: construction fails with the zero-modulo error     *)
(* when modulo = 0, with the shard-range error when modulo >= 1 and        *)
(* base + modulo > 8192, and passes validation when modulo >= 1 and        *)
(* base + modulo <= 8192 (sums taken in the integers).                     *)
(***************************************************************************)
SumExceeds ==
    \/ AddOverflows(settings.logical_volume_base, settings.logical_volume_modulo)
    \/ U64Lt(FromNat(MAX_LOGICAL_VOLUMES),
             WrappingAdd(settings.logical_volume_base, settings.logical_volume_modulo))

C7_Rejection ==
    constructed # "NotRun" =>
        IF settings.logical_volume_modulo = {}
        THEN constructed = "LogicalVolumeModuleIsZero"
        ELSE IF SumExceeds
        THEN constructed = "ExceededAvailableLogicalVolumes"
        ELSE constructed \in {"Ok", "FailedToParseOriginDuration"}

(***************************************************************************)
(* C8  Rotation on rollover: a call whose clock reading is later than      *)
(* last_duration_ms succeeds, stores the reading in last_duration_ms,      *)
(* resets sequence_id, records the previous logical_volume_id and advances *)
(* logical_volume_id by one modulo the modulo; with modulo 3 and the clock *)
(* one millisecond further at each of six calls the identifiers carry the  *)
(* shard offsets 1, 2, 0, 1, 2, 0.                                         *)
(***************************************************************************)
RotationOffsets == <<1, 2, 0, 1, 2, 0>>

C8_Rotation ==
    /\ (call.made /\ call.later) =>
           /\ Succeeded
           /\ state.last_duration_ms = call.ms
           /\ state.sequence_id = 0
           /\ state.last_logical_volume_id = call.before.logical_volume_id
           /\ state.logical_volume_id = (call.before.logical_volume_id + 1) % Modulo
    /\ (Modulo = 3 /\ pattern.shape = "stepping" /\ pattern.calls \in 1 .. 6) =>
           /\ Succeeded
           /\ state.logical_volume_id = RotationOffsets[pattern.calls]
           /\ returned.id =
                  compose_snowprint(
                      FromNat(call.ms),
                      WrappingAdd(settings.logical_volume_base,
                                  FromNat(RotationOffsets[pattern.calls])),
                      {})

C8_Witness ==
    /\ Modulo = 3
    /\ pattern = [shape |-> "stepping", calls |-> 6]
    /\ call.later
    /\ state.logical_volume_id = 0
    /\ Succeeded

(***************************************************************************)
(* C9  Per-pair sequence order: an identifier returned with the timestamp  *)
(* field and the shard field of an identifier returned earlier has a       *)
(* larger sequence field.                                                  *)
(***************************************************************************)
C9_PairOrder ==
    Succeeded =>
        \A e \in {prev_id.id, first_id.id} :
            (Earlier(e) /\ Stamp(e) = Stamp(returned.id) /\ Shard(e) = Shard(returned.id))
                => U64Lt(Sequence(e), Sequence(returned.id))

(***************************************************************************)
(* C10  Backward-clock clamping: a call whose clock reading is not later   *)
(* than last_duration_ms, or fails, takes the same-millisecond branch and  *)
(* stamps with last_duration_ms; last_duration_ms never decreases; and no  *)
(* identifier has a smaller timestamp field than one returned before it    *)
(* (stated for each identifier and its predecessor).                       *)
(***************************************************************************)
C10_Clamping ==
    call.made =>
        /\ ~call.later =>
               /\ state = time_did_not_change(call.before, settings).state
               /\ state.last_duration_ms = call.before.last_duration_ms
               /\ Succeeded =>
                      returned.id =
                          compose_snowprint(
                              FromNat(call.before.last_duration_ms),
                              WrappingAdd(settings.logical_volume_base,
                                          FromNat(state.logical_volume_id)),
                              FromNat(state.sequence_id))
        /\ state.last_duration_ms >= call.before.last_duration_ms
        /\ (Succeeded /\ prev_id.some) =>
               U64Le(Stamp(prev_id.id), Stamp(returned.id))

(***************************************************************************)
(* C11  Sequence range: sequence_id lies in [0, 2^10) in every state the   *)
(* generator reaches, after successful and failed calls alike.             *)
(***************************************************************************)
C11_SequenceRange ==
    state.sequence_id \in 0 .. (MAX_SEQUENCES - 1)

(***************************************************************************)
(* C12  Failure frame: a call that fails with NoAvailableSequences returns *)
(* no identifier and leaves logical_volume_id, last_logical_volume_id and  *)
(* last_duration_ms as they were before the call.                          *)
(***************************************************************************)
C12_FailureFrame ==
    Exhausted =>
        /\ returned.id = {}
        /\ state.logical_volume_id = call.before.logical_volume_id
        /\ state.last_logical_volume_id = call.before.last_logical_volume_id
        /\ state.last_duration_ms = call.before.last_duration_ms

C12_Witness ==
    /\ Exhausted
    /\ Modulo >= 2
    /\ state.logical_volume_id # state.last_logical_volume_id
    /\ call.before.sequence_id = MAX_SEQUENCES - 1

(***************************************************************************)
(* C13  Recovery after exhaustion: the first call after failed calls whose *)
(* clock reading is later than last_duration_ms succeeds and returns an    *)
(* identifier with the new timestamp and sequence 0.                       *)
(***************************************************************************)
C13_Recovery ==
    (call.made /\ call.later /\ call.prior = "NoAvailableSequences") =>
        /\ Succeeded
        /\ Stamp(returned.id) = FromNat(call.ms)
        /\ Sequence(returned.id) = {}

(***************************************************************************)
(* C14  Emitted fields match state: the identifier a successful call       *)
(* returns decomposes into last_duration_ms, logical_volume_base +         *)
(* logical_volume_id and sequence_id of the state the call leaves, with    *)
(* the sequence below 1024 and the shard id below 8192.                    *)
(***************************************************************************)
C14_FieldsMatchState ==
    Succeeded =>
        /\ decompose_snowprint(returned.id) =
               <<FromNat(state.last_duration_ms),
                 WrappingAdd(settings.logical_volume_base, FromNat(state.logical_volume_id)),
                 FromNat(state.sequence_id)>>
        /\ ~AddOverflows(settings.logical_volume_base, FromNat(state.logical_volume_id))
        /\ state.sequence_id < MAX_SEQUENCES
        /\ U64Lt(WrappingAdd(settings.logical_volume_base, FromNat(state.logical_volume_id)),
                 FromNat(MAX_LOGICAL_VOLUMES))

(***************************************************************************)
(* C15  Settings invariant under 64-bit arithmetic: settings that pass     *)
(* validation have modulo >= 1 and base + modulo <= 2^13, the sum taken    *)
(* in the integers.                                                        *)
(***************************************************************************)
PassedValidation == constructed \in {"Ok", "FailedToParseOriginDuration"}

C15_AcceptedInRange ==
    PassedValidation =>
        /\ settings.logical_volume_modulo # {}
        /\ ~SumExceeds

(***************************************************************************)
(* C16  Exhaustion is sticky within a millisecond: after a call failed     *)
(* with NoAvailableSequences, a call whose clock reading is not later      *)
(* than last_duration_ms fails with NoAvailableSequences too and issues    *)
(* no identifier.                                                          *)
(***************************************************************************)
C16_Sticky ==
    (call.made /\ ~call.later /\ call.prior = "NoAvailableSequences") =>
        /\ Exhausted
        /\ returned.id = {}
        /\ state.last_duration_ms = call.before.last_duration_ms

C16_Witness ==
    /\ call.made
    /\ ~call.later
    /\ call.prior = "NoAvailableSequences"
    /\ call.before.sequence_id >= MAX_SEQUENCES
    /\ Exhausted

C18_InverseRoundTrip ==
    /\ codec_pc \in {"decomposed", "recomposed"} =>
           /\ codec_out[1] \subseteq LowOnes(TIMESTAMP_BIT_LEN)
           /\ codec_out[2] \subseteq LowOnes(LOGICAL_VOLUME_BIT_LEN)
           /\ codec_out[3] \subseteq LowOnes(SEQUENCE_BIT_LEN)
    /\ codec_pc = "recomposed" => codec_back = codec_id

C18_Witness ==
    /\ codec_pc = "recomposed"
    /\ codec_id = U64Max
    /\ codec_back = U64Max

====
